---- MODULE Spec2Model ----
(***************************************************************************)
(* The federated-learning Coordinator of xain_fl/grpc/coordinator.py: the  *)
(* participant registry (Participants), the per-round collector (Round),   *)
(* the Coordinator state machine, the gRPC servicer (CoordinatorGrpc) and  *)
(* the heartbeat monitor.                                                  *)
(*                                                                         *)
(* Spec      every RPC and every monitor cycle runs alone, start to end.   *)
(* SpecConc  EndTraining handlers run on the worker pool, interleaved at   *)
(*           statement granularity (the Coordinator holds no lock).        *)
(* SpecRun   SpecConc driven by participants that follow the protocol.     *)
(* SpecStore Spec with the storage collaborator attached to EndTraining.   *)
(* SpecFn    the Controller and the admission threshold on their own.      *)
(* SpecRound one Round object of either class, called method by method.    *)
(* SpecMon   the heartbeat monitor thread, statement by statement, next    *)
(*           to the handlers that touch the registry.                      *)
(* SpecLock  the threads and the locks of the registry and of a Round.     *)
(* SpecHist  Spec with a record of the start_training calls that succeeded.*)
(* SpecTerm  SpecMon with the termination signal of serve, under fair      *)
(*           scheduling of the monitor thread.                             *)
(* SpecBeat  Heartbeat handlers, statement by statement, next to the       *)
(*           monitor thread.                                               *)
(* SpecRdv   Rendezvous handlers on the worker pool, statement by          *)
(*           statement.                                                    *)
(***************************************************************************)
EXTENDS Integers, Sequences, FiniteSets

\* ------------------------------------------------------------ bounds ----
\* the first NumIds of PidNames are the callers' ids (their peer addresses)
NumIds == 2
\* num_rounds is drawn from 1..MaxRounds
MaxRounds == 2
\* the clock advances at most MaxTicks times
MaxTicks == 2
\* the worker pool of SpecConc runs NumWorkers EndTraining handlers at a time
NumWorkers == 2
\* SpecConc receives at most MaxCalls EndTraining requests
MaxCalls == 3
\* SpecFn: a Controller is given up to MaxCandidates ids, the fraction has a
\* denominator up to MaxDen, minimum_participants_in_round is up to MaxMinInRound
MaxCandidates == 4
MaxDen == 4
MaxMinInRound == 3
\* SpecStore: the storage collaborator takes at most MaxWrites writes
MaxWrites == 2

\* SpecRound: the longest participant_ids list add_selected builds
MaxListLen == 3

\* ------------------------------------------------- program constants ----
HEARTBEAT_TIME == 10
HEARTBEAT_TIMEOUT == 5

PidNames == <<"p1", "p2", "p3", "p4", "p5">>
PIDs == {PidNames[i] : i \in 1..NumIds}
Workers == 1..NumWorkers
NoPid == "none"

VARIABLES
    \* Coordinator.__init__ arguments and attributes
    num_rounds,
    minimum_participants_in_round,
    fraction_of_participants,
    minimum_connected_participants,
    theta,
    epochs,
    epoch_base,
    state,
    current_round,
    \* Participants.participants: id -> heartbeat_expires
    participants,
    \* Coordinator.round: [participant_ids, updates]; updates is the dict in
    \* insertion order, a sequence of [pid, theta_update]
    round,
    \* time.time()
    now,
    \* the outcome of the last operation: the exception Coordinator.on_message
    \* raised, the exception that left the servicer method, the status code
    \* set on the context, the reply message
    last,
    \* identity of the Round object Coordinator.round refers to (SpecConc)
    rid,
    \* per worker: the statement its handler is at and the handler's locals
    pc,
    loc,
    \* number of EndTraining requests handed to the worker pool so far
    calls,
    \* history of SpecConc: which (Round object, id) accepted an update once
    \* or more than once, which Round objects were aggregated once or more
    acceptedOnce,
    acceptedTwice,
    aggregatedOnce,
    aggregatedTwice,
    \* SpecFn: the Controller object under test and the list its select_ids
    \* returned (Spec does not track Coordinator.controller: every selection
    \* builds a new one and nothing reads it afterwards)
    controller,
    selected,
    \* SpecStore: the writes handed to the storage collaborator, in order
    store,
    \* SpecRound: a Round object of xain_fl/coordinator/round.py (next to
    \* round, a Round object of grpc/coordinator.py) and what the last method
    \* called on either returned
    rnd,
    result,
    \* SpecMon: the heartbeat monitor thread, statement by statement
    mon,
    \* SpecLock: who holds the registry's and the Round's lock, and where
    \* each thread is
    lk,
    tpc,
    \* SpecHist: the (participant, round) pairs of the start_training calls
    \* that succeeded
    started

cfgVars == <<num_rounds, minimum_participants_in_round, fraction_of_participants,
             minimum_connected_participants, epochs, epoch_base>>
coordVars == <<theta, state, current_round, participants, round>>
concVars == <<rid, pc, loc, calls, acceptedOnce, acceptedTwice, aggregatedOnce, aggregatedTwice>>
objVars == <<rnd, result>>
monVars == <<mon>>
lockVars == <<lk, tpc>>
histVars == <<started>>
otherVars == <<objVars, monVars, lockVars, histVars>>
auxVars == <<controller, selected, store, otherVars>>
vars == <<cfgVars, coordVars, now, last, concVars, auxVars>>

\* --------------------------------------------------------- helpers ------
RECURSIVE GCD(_, _)
GCD(a, b) == IF b = 0 THEN a ELSE GCD(b, a % b)

Range(s) == {s[i] : i \in 1..Len(s)}

\* ceil(a / b) for a >= 0, b > 0
CeilDiv(a, b) == (a + b - 1) \div b

Max(a, b) == IF a >= b THEN a ELSE b
Min(a, b) == IF a <= b THEN a ELSE b

\* sequences over S without repetition, of length k
RECURSIVE Arrangements(_, _)
Arrangements(S, k) ==
    IF k = 0 THEN {<<>>}
    ELSE UNION {{<<x>> \o t : t \in Arrangements(S \ {x}, k - 1)} : x \in S}

\* ------------------------------------------------------ Participants ----
\* variant: the grace period is left out of the deadline
heartbeat_expires_no_grace(t) == t + HEARTBEAT_TIME

\* ParticipantContext.__init__ / Participants.update_expires
heartbeat_expires(t) == t + HEARTBEAT_TIME + HEARTBEAT_TIMEOUT

\* Participants.add: self.participants[participant_id] = ParticipantContext(..)
Participants_add(ps, id, t) ==
    [p \in DOMAIN ps \cup {id} |-> IF p = id THEN heartbeat_expires(t) ELSE ps[p]]

\* Participants.remove
Participants_remove(ps, id) ==
    IF id \in DOMAIN ps THEN [p \in DOMAIN ps \ {id} |-> ps[p]] ELSE ps

\* Participants.len
Participants_len(ps) == Cardinality(DOMAIN ps)

\* Participants.next_expiration at time t
Participants_next_expiration(ps, t) ==
    IF DOMAIN ps # {}
    THEN CHOOSE d \in {ps[p] : p \in DOMAIN ps} :
             \A p \in DOMAIN ps : d <= ps[p]
    ELSE t + HEARTBEAT_TIME + HEARTBEAT_TIMEOUT

\* Participants.ids
Participants_ids(ps) == DOMAIN ps

\* Participants.update_expires (the caller has checked membership)
Participants_update_expires(ps, id, t) ==
    [ps EXCEPT ![id] = heartbeat_expires(t)]

\* ------------------------------------------------------------ Round -----
\* Round.__init__
NewRound(ids) == [participant_ids |-> ids, updates |-> <<>>]

UpdateKeys(r) == {r.updates[i].pid : i \in 1..Len(r.updates)}

\* Round.add_updates: the test that raises DuplicatedUpdateError
Round_is_duplicate(r, id) == id \in UpdateKeys(r)

\* Round.add_updates: self.updates[participant_id] = {...}; a key that is
\* already present keeps its place in the dict and gets the new value
Round_store_update(r, id, upd) ==
    IF id \in UpdateKeys(r)
    THEN [r EXCEPT !.updates =
             [i \in 1..Len(r.updates) |->
                 IF r.updates[i].pid = id
                 THEN [pid |-> id, theta_update |-> upd]
                 ELSE r.updates[i]]]
    ELSE [r EXCEPT !.updates = Append(@, [pid |-> id, theta_update |-> upd])]

\* variant: a Round counts as finished as soon as it has an update
Round_is_finished_any(r) == Len(r.updates) > 0

\* Round.is_finished of the Round class the Coordinator instantiates
Round_is_finished(r) == Len(r.updates) = Len(r.participant_ids)

\* variant: only the first update is handed to the aggregator
Round_get_theta_updates_first(r) == <<r.updates[1].theta_update>>

\* Round.get_theta_updates: the values of the dict, in insertion order
Round_get_theta_updates(r) == [i \in 1..Len(r.updates) |-> r.updates[i].theta_update]

\* ------------------------------------------------------- Aggregator -----
RECURSIVE WeightedSum(_)
WeightedSum(us) ==
    IF us = <<>> THEN 0
    ELSE Head(us).theta_prime * Head(us).num_examples + WeightedSum(Tail(us))

RECURSIVE ExampleSum(_)
ExampleSum(us) ==
    IF us = <<>> THEN 0 ELSE Head(us).num_examples + ExampleSum(Tail(us))

\* federated averaging: the mean of theta_prime weighted by num_examples,
\* kept as a reduced fraction
aggregate(us) ==
    LET n == WeightedSum(us)
        d == ExampleSum(us)
        g == GCD(n, d)
    IN  IF d = 0 THEN [num |-> 0, den |-> 0] ELSE [num |-> n \div g, den |-> d \div g]

\* ------------------------------------------------------- Controller -----
\* variant: the raw number is rounded down
get_num_ids_to_select_floor(n, f) == Min(n, Max(1, (n * f.num) \div f.den))

\* Controller.get_num_ids_to_select: int(min(n, max(1, np.ceil(n * fraction))));
\* the float product n * fraction rounds to the exact value wherever that is
\* an integer, for the n and fractions drawn here
get_num_ids_to_select(n, f) == Min(n, Max(1, CeilDiv(n * f.num, f.den)))

\* Controller.__init__
Controller_init(ids, f) ==
    [participant_ids |-> ids, fraction_of_participants |-> f,
     num_ids_to_select |-> get_num_ids_to_select(Cardinality(ids), f)]

\* RandomController.select_ids: every sample without replacement can come out
select_ids(ids, f) == Arrangements(ids, get_num_ids_to_select(Cardinality(ids), f))

\* ------------------------------------------------------ Coordinator -----
\* the fractions num/den in lowest terms, den <= 6, whose nearest double is
\* greater than num/den: 0.2, 0.4, 0.8 and 5/6
float_above(f) == <<f.num, f.den>> \in {<<1, 5>>, <<2, 5>>, <<4, 5>>, <<5, 6>>}

\* Coordinator.get_minimum_connected_participants: min_in_round // fraction,
\* the floor of min_in_round divided by the double that stands for fraction
\* (1 // 0.2 is 4.0)
get_minimum_connected_participants(m, f) ==
    LET q == (m * f.den) \div f.num
    IN  IF (m * f.den) % f.num = 0 /\ float_above(f) THEN q - 1 ELSE q

\* numproto.ndarray_to_proto applied to the global weights
ndarray_to_proto(t) == [proto |-> t]

EmptyReply ==
    [response |-> "UNSET", state |-> "UNSET", round |-> 0,
     theta |-> ndarray_to_proto([num |-> 0, den |-> 0]), epochs |-> 0, epoch_base |-> 0]

Outcome(op, id, err, raised, code, reply) ==
    [op |-> op, id |-> id, error |-> err, raised |-> raised, code |-> code, reply |-> reply]

\* variant: heartbeats are let through untested
on_message_unknown_but_heartbeat(msg, id, ps) ==
    msg \notin {"Rendezvous", "Heartbeat"} /\ id \notin DOMAIN ps

\* Coordinator.on_message: the membership test in front of every handler
\* but rendezvous
on_message_unknown(msg, id, ps) ==
    msg # "Rendezvous" /\ id \notin Participants_ids(ps)

\* the values Init draws fraction_of_participants and
\* minimum_participants_in_round from
Fractions == {[num |-> 1, den |-> 1], [num |-> 1, den |-> 2]}
MinInRounds == {1, 2}

\* the theta_update values an EndTrainingRequest carries: (theta_prime, num_examples)
Updates == {[theta_prime |-> 1, num_examples |-> 1],
            [theta_prime |-> 2, num_examples |-> 3]}

\* variants of the admission test: one participant too many, one too few
rendezvous_has_room_le(n, m) == n <= m
rendezvous_has_room_strict(n, m) == n < m - 1

\* Coordinator._handle_rendezvous: the admission test
rendezvous_has_room(n, m) == n < m

\* variant: a round starts only when the registry has grown past the threshold
rendezvous_starts_round_gt(n, m) == n > m

\* Coordinator._handle_rendezvous: the test that starts a round
rendezvous_starts_round(n, m) == n = m

\* variant: the round number is left at 0 when the first round starts
first_round_keep(cr) == cr

\* variant: every entry into ROUND starts again at round 1
first_round_reset(cr) == 1

\* Coordinator._handle_rendezvous: 1 if self.current_round == 0 else self.current_round
first_round(cr) == IF cr = 0 THEN 1 ELSE cr

\* variant: only an empty registry falls back to STANDBY
remove_falls_back_empty(n, m) == n = 0

\* Coordinator.remove_participant: the test that falls back to STANDBY
remove_falls_back(n, m) == n < m

\* variant: only the Coordinator's state is tested
start_training_invalid_state_only(st, id, r) == st # "ROUND"

\* Coordinator._handle_start_training: the test that raises InvalidRequestError
start_training_invalid(st, id, r) ==
    st # "ROUND" \/ id \notin Range(r.participant_ids)

\* variant: the round counter is compared one past the last round
is_last_round_late(cr, nr) == cr = nr + 1

\* Coordinator._handle_end_training: self.current_round == self.num_rounds
is_last_round(cr, nr) == cr = nr

\* variant: every registered caller is told ROUND
heartbeat_state_always_round(id, r) == "ROUND"

\* Coordinator._handle_heartbeat: the state advertised to the caller
heartbeat_state(id, r) ==
    IF id \in Range(r.participant_ids) THEN "ROUND" ELSE "STANDBY"

\* ------------------------------------------------- CoordinatorGrpc ------
\* CoordinatorGrpc.Rendezvous: no exception is handled, none is raised
servicer_Rendezvous(id, response) ==
    Outcome("Rendezvous", id, "none", "none", "OK",
            [EmptyReply EXCEPT !.response = response])

\* CoordinatorGrpc.Heartbeat
servicer_Heartbeat(id, err, reply) ==
    CASE err = "none" -> Outcome("Heartbeat", id, err, "none", "OK", reply)
      [] err = "UnknownParticipantError" ->
            Outcome("Heartbeat", id, err, "none", "PERMISSION_DENIED", EmptyReply)
      [] OTHER -> Outcome("Heartbeat", id, err, err, "UNKNOWN", EmptyReply)

\* CoordinatorGrpc.StartTraining: the InvalidRequestError branch calls
\* context.set_Code, which the context does not have: AttributeError leaves
\* the method and the RPC ends with the status of an unhandled exception
servicer_StartTraining(id, err, reply) ==
    CASE err = "none" -> Outcome("StartTraining", id, err, "none", "OK", reply)
      [] err = "UnknownParticipantError" ->
            Outcome("StartTraining", id, err, "none", "PERMISSION_DENIED", EmptyReply)
      [] err = "InvalidRequestError" ->
            Outcome("StartTraining", id, err, "AttributeError", "UNKNOWN", EmptyReply)
      [] OTHER -> Outcome("StartTraining", id, err, err, "UNKNOWN", EmptyReply)

\* CoordinatorGrpc.EndTraining
servicer_EndTraining(id, err) ==
    CASE err = "none" -> Outcome("EndTraining", id, err, "none", "OK", EmptyReply)
      [] err = "DuplicatedUpdateError" ->
            Outcome("EndTraining", id, err, "none", "ALREADY_EXISTS", EmptyReply)
      [] err = "UnknownParticipantError" ->
            Outcome("EndTraining", id, err, "none", "PERMISSION_DENIED", EmptyReply)
      [] OTHER -> Outcome("EndTraining", id, err, err, "UNKNOWN", EmptyReply)

\* ------------------------------------- xain_fl/coordinator/round.py -----
\* Round.__init__
R_init(ids) == [participant_ids |-> ids, updates |-> <<>>]

R_UpdateKeys(r) == {r.updates[i].pid : i \in 1..Len(r.updates)}

\* self.updates[id]
R_update_of(r, id) ==
    LET i == CHOOSE j \in 1..Len(r.updates) : r.updates[j].pid = id
    IN  r.updates[i]

\* Round.add_selected: self.participant_ids.extend(more_ids)
R_add_selected(r, more_ids) ==
    [r EXCEPT !.participant_ids = @ \o more_ids]

\* Round.remove_selected: list.remove drops the first occurrence; the
\* ValueError of an absent id is swallowed
R_remove_selected(r, id) ==
    IF id \notin Range(r.participant_ids) THEN r
    ELSE LET ids == r.participant_ids
             k == CHOOSE j \in 1..Len(ids) :
                      ids[j] = id /\ \A h \in 1..(j - 1) : ids[h] # id
         IN  [r EXCEPT !.participant_ids =
                 [j \in 1..(Len(ids) - 1) |->
                     IF j < k THEN ids[j] ELSE ids[j + 1]]]

\* Round.add_updates: the test that raises DuplicatedUpdateError
R_add_updates_raises(r, id) == id \in R_UpdateKeys(r)

\* Round.add_updates: self.updates[participant_id] = {...}
R_add_updates(r, id, model_weights, aggregation_data) ==
    [r EXCEPT !.updates =
        Append(@, [pid |-> id, model_weights |-> model_weights,
                   aggregation_data |-> aggregation_data])]

\* Round.is_finished
R_is_finished(r) ==
    \A i \in 1..Len(r.participant_ids) :
        r.participant_ids[i] \in R_UpdateKeys(r)

\* Round.get_weight_updates: self.updates[id] raises KeyError for a selected
\* id without an update
R_get_weight_updates_raises(r) ==
    \E i \in 1..Len(r.participant_ids) :
        r.participant_ids[i] \notin R_UpdateKeys(r)

\* Round.get_weight_updates: the pair of lists it returns
R_get_weight_updates(r) ==
    LET updates == [i \in 1..Len(r.participant_ids) |->
                       R_update_of(r, r.participant_ids[i])]
    IN  [weights |-> [i \in 1..Len(updates) |-> updates[i].model_weights],
         data |-> [i \in 1..Len(updates) |-> updates[i].aggregation_data]]

NoResult ==
    [obj |-> "none", op |-> "none", arg |-> NoPid, error |-> "none",
     finished |-> FALSE,
     weights |-> <<>>, data |-> <<>>, theta_updates |-> <<>>]

\* serve: the heartbeat monitor thread next to the pool threads
LockThreads == 0..NumWorkers
MonitorThread == CHOOSE t \in LockThreads : t \notin Workers

\* Participants._lock and the _lock of a Round of coordinator/round.py
Locks == {"registry", "round"}

\* monitor_heartbeats is started at the top of its loop
MonInit == [pc |-> "loop", seen |-> {}, size |-> 0, to_remove |-> {},
            next_expiration |-> 0, sleep |-> 0, wake |-> 0,
            raised |-> "none", terminate_event |-> FALSE,
            signal_at_start |-> FALSE]

\* the objects the other specifications work on, as constructed
InitOther ==
    /\ rnd = R_init(<<>>)
    /\ result = NoResult
    /\ mon = MonInit
    /\ lk = [l \in Locks |-> {}]
    /\ tpc = [t \in LockThreads |-> [pc |-> "idle", method |-> "none"]]
    /\ started = {}

NoLocals == [id |-> NoPid, upd |-> [theta_prime |-> 0, num_examples |-> 0], ref |-> 0]

\* ----------------------------------------------------------- Init -------
Init ==
    /\ num_rounds \in 1..MaxRounds
    /\ minimum_participants_in_round \in MinInRounds
    /\ fraction_of_participants \in Fractions
    /\ minimum_connected_participants =
           get_minimum_connected_participants(minimum_participants_in_round,
                                              fraction_of_participants)
    /\ minimum_connected_participants <= NumIds
    /\ epochs = 5
    /\ epoch_base = 2
    /\ theta = [num |-> 0, den |-> 1]
    /\ participants = <<>>
    /\ round = NewRound(<<>>)
    /\ state = "STANDBY"
    /\ current_round = 0
    /\ now = 0
    /\ last = Outcome("init", NoPid, "none", "none", "OK", EmptyReply)
    /\ rid = 0
    /\ pc = [w \in Workers |-> "idle"]
    /\ loc = [w \in Workers |-> NoLocals]
    /\ calls = 0
    /\ acceptedOnce = {}
    /\ acceptedTwice = {}
    /\ aggregatedOnce = {}
    /\ aggregatedTwice = {}
    /\ controller = Controller_init({}, [num |-> 1, den |-> 1])
    /\ selected = <<>>
    /\ store = <<>>
    /\ InitOther

\* ------------------------------------- operations, one at a time --------
\* Coordinator.select_participant_ids_and_init_round. The call spells the
\* keyword participants_ids where Controller.__init__ names its parameter
\* participant_ids; it is taken as handing the registry's ids to the
\* Controller, which is what the method is documented to do.
select_participant_ids_and_init_round(ps) ==
    \E sel \in select_ids(Participants_ids(ps), fraction_of_participants) :
        round' = NewRound(sel)

\* CoordinatorGrpc.Rendezvous -> Coordinator.on_message -> _handle_rendezvous
handle_rendezvous(id) ==
    IF rendezvous_has_room(Participants_len(participants), minimum_connected_participants)
    THEN LET ps == Participants_add(participants, id, now)
         IN  /\ participants' = ps
             /\ IF rendezvous_starts_round(Participants_len(ps),
                                           minimum_connected_participants)
                THEN /\ select_participant_ids_and_init_round(ps)
                     /\ state' = "ROUND"
                     /\ current_round' = first_round(current_round)
                ELSE UNCHANGED <<round, state, current_round>>
             /\ last' = servicer_Rendezvous(id, "ACCEPT")
             /\ UNCHANGED theta
    ELSE /\ last' = servicer_Rendezvous(id, "LATER")
         /\ UNCHANGED coordVars

Rendezvous(id) ==
    /\ handle_rendezvous(id)
    /\ UNCHANGED <<cfgVars, auxVars, now, concVars>>

\* CoordinatorGrpc.Heartbeat -> Coordinator.on_message -> _handle_heartbeat
handle_heartbeat(id) ==
    IF on_message_unknown("Heartbeat", id, participants)
    THEN /\ last' = servicer_Heartbeat(id, "UnknownParticipantError", EmptyReply)
         /\ UNCHANGED coordVars
    ELSE IF id \notin DOMAIN participants
    THEN /\ last' = servicer_Heartbeat(id, "KeyError", EmptyReply)
         /\ UNCHANGED coordVars
    ELSE /\ participants' = Participants_update_expires(participants, id, now)
         /\ last' = servicer_Heartbeat(id, "none",
                [EmptyReply EXCEPT
                    !.state = heartbeat_state(id, round),
                    !.round = current_round])
         /\ UNCHANGED <<theta, state, current_round, round>>

Heartbeat(id) ==
    /\ handle_heartbeat(id)
    /\ UNCHANGED <<cfgVars, auxVars, now, concVars>>

\* CoordinatorGrpc.StartTraining -> on_message -> _handle_start_training
handle_start_training(id) ==
    /\ last' =
         IF on_message_unknown("StartTraining", id, participants)
         THEN servicer_StartTraining(id, "UnknownParticipantError", EmptyReply)
         ELSE IF start_training_invalid(state, id, round)
         THEN servicer_StartTraining(id, "InvalidRequestError", EmptyReply)
         ELSE servicer_StartTraining(id, "none",
                [EmptyReply EXCEPT !.theta = ndarray_to_proto(theta),
                                   !.epochs = epochs,
                                   !.epoch_base = epoch_base])
    /\ UNCHANGED coordVars

StartTraining(id) ==
    /\ handle_start_training(id)
    /\ UNCHANGED <<cfgVars, auxVars, now, concVars>>

\* CoordinatorGrpc.EndTraining -> on_message -> _handle_end_training
handle_end_training(id, upd) ==
    IF on_message_unknown("EndTraining", id, participants)
    THEN /\ last' = servicer_EndTraining(id, "UnknownParticipantError")
         /\ UNCHANGED coordVars
    ELSE IF Round_is_duplicate(round, id)
    THEN /\ last' = servicer_EndTraining(id, "DuplicatedUpdateError")
         /\ UNCHANGED coordVars
    ELSE LET r == Round_store_update(round, id, upd)
         IN  /\ last' = servicer_EndTraining(id, "none")
             /\ UNCHANGED participants
             /\ IF Round_is_finished(r)
                THEN /\ theta' = aggregate(Round_get_theta_updates(r))
                     /\ IF is_last_round(current_round, num_rounds)
                        THEN /\ state' = "FINISHED"
                             /\ round' = r
                             /\ UNCHANGED current_round
                        ELSE /\ current_round' = current_round + 1
                             /\ select_participant_ids_and_init_round(participants)
                             /\ UNCHANGED state
                ELSE /\ round' = r
                     /\ UNCHANGED <<theta, state, current_round>>

EndTraining(id, upd) ==
    /\ handle_end_training(id, upd)
    /\ UNCHANGED <<cfgVars, auxVars, now, concVars>>

\* Coordinator.remove_participant applied to the ids of S, one after the other
remove_participants(S) ==
    LET ps == [p \in DOMAIN participants \ S |-> participants[p]]
    IN  /\ participants' = ps
        /\ state' = IF S # {} /\ remove_falls_back(Participants_len(ps),
                                                   minimum_connected_participants)
                    THEN "STANDBY" ELSE state
        /\ UNCHANGED <<theta, current_round, round>>

\* Coordinator.remove_participant
RemoveParticipant(id) ==
    /\ remove_participants({id})
    /\ last' = Outcome("remove_participant", id, "none", "none", "OK", EmptyReply)
    /\ UNCHANGED <<cfgVars, auxVars, now, concVars>>

\* variant: a deadline that is reached but not passed counts as expired
expired_le(ps, t) == {p \in DOMAIN ps : ps[p] <= t}

\* monitor_heartbeats, one pass of the loop: the ids whose deadline is before
\* time.time() are collected and removed
expired(ps, t) == {p \in DOMAIN ps : ps[p] < t}

MonitorCycle ==
    /\ remove_participants(expired(participants, now))
    /\ last' = Outcome("monitor", NoPid, "none", "none", "OK", EmptyReply)
    /\ UNCHANGED <<cfgVars, auxVars, now, concVars>>

\* time passes, one heartbeat period plus the grace period at a time, so
\* that a deadline set at one tick is reached exactly at the next
TickStep == HEARTBEAT_TIME + HEARTBEAT_TIMEOUT

Tick ==
    /\ now + TickStep <= MaxTicks * TickStep
    /\ now' = now + TickStep
    /\ last' = Outcome("tick", NoPid, "none", "none", "OK", EmptyReply)
    /\ UNCHANGED <<cfgVars, auxVars, coordVars, concVars>>

Next ==
    \/ \E id \in PIDs : Rendezvous(id)
    \/ \E id \in PIDs : Heartbeat(id)
    \/ \E id \in PIDs : StartTraining(id)
    \/ \E id \in PIDs, upd \in Updates : EndTraining(id, upd)
    \/ \E id \in PIDs : RemoveParticipant(id)
    \/ MonitorCycle
    \/ Tick

Spec == Init /\ [][Next]_vars

\* ------------------- the operations with a record of who started --------
\* StartTraining, remembering the round in which it succeeded
HistStartTraining(id) ==
    /\ handle_start_training(id)
    /\ started' = IF last'.error = "none"
                  THEN started \cup {<<id, current_round>>}
                  ELSE started
    /\ UNCHANGED <<cfgVars, now, concVars, controller, selected, store,
                   objVars, monVars, lockVars>>

NextHist ==
    \/ \E id \in PIDs : Rendezvous(id)
    \/ \E id \in PIDs : Heartbeat(id)
    \/ \E id \in PIDs : HistStartTraining(id)
    \/ \E id \in PIDs, upd \in Updates : EndTraining(id, upd)
    \/ \E id \in PIDs : RemoveParticipant(id)
    \/ MonitorCycle
    \/ Tick

SpecHist == Init /\ [][NextHist]_vars

\* ------------------- EndTraining handlers on the worker pool ------------
\* serve: grpc.server(futures.ThreadPoolExecutor(max_workers=10)) runs the
\* servicer methods on pool threads; Coordinator takes no lock, so the
\* statements of two handlers interleave.

AllIdle == \A w \in Workers : pc[w] = "idle"

Goto(w, label) == pc' = [pc EXCEPT ![w] = label]

\* the handler returns or raises: the servicer method ends the RPC
Return(w, err) ==
    /\ pc' = [pc EXCEPT ![w] = "idle"]
    /\ loc' = [loc EXCEPT ![w] = NoLocals]
    /\ last' = servicer_EndTraining(loc[w].id, err)

\* a Rendezvous RPC handled while no EndTraining handler is running
CRendezvous(id) ==
    /\ AllIdle
    /\ handle_rendezvous(id)
    /\ rid' = IF round' # round THEN rid + 1 ELSE rid
    /\ UNCHANGED <<cfgVars, auxVars, now, pc, loc, calls, acceptedOnce, acceptedTwice,
                   aggregatedOnce, aggregatedTwice>>

\* an EndTrainingRequest reaches a free worker
CDispatch(w, id, upd) ==
    /\ pc[w] = "idle"
    /\ calls < MaxCalls
    /\ calls' = calls + 1
    /\ Goto(w, "on_message")
    /\ loc' = [loc EXCEPT ![w] = [id |-> id, upd |-> upd, ref |-> 0]]
    /\ UNCHANGED <<cfgVars, auxVars, coordVars, now, last, rid, acceptedOnce, acceptedTwice,
                   aggregatedOnce, aggregatedTwice>>

\* Coordinator.on_message: the membership test
COnMessage(w) ==
    /\ pc[w] = "on_message"
    /\ IF on_message_unknown("EndTraining", loc[w].id, participants)
       THEN Return(w, "UnknownParticipantError")
       ELSE Goto(w, "add_updates_test") /\ UNCHANGED <<loc, last>>
    /\ UNCHANGED <<cfgVars, auxVars, calls, coordVars, now, rid, acceptedOnce, acceptedTwice,
                   aggregatedOnce, aggregatedTwice>>

\* Round.add_updates, on the Round object self.round refers to at the call:
\* if participant_id in self.updates.keys(): raise DuplicatedUpdateError
CAddUpdatesTest(w) ==
    /\ pc[w] = "add_updates_test"
    /\ IF Round_is_duplicate(round, loc[w].id)
       THEN Return(w, "DuplicatedUpdateError")
       ELSE /\ Goto(w, "add_updates_store")
            /\ loc' = [loc EXCEPT ![w].ref = rid]
            /\ UNCHANGED last
    /\ UNCHANGED <<cfgVars, auxVars, calls, coordVars, now, rid, acceptedOnce, acceptedTwice,
                   aggregatedOnce, aggregatedTwice>>

\* Round.add_updates: self.updates[participant_id] = {...}, on the Round
\* object of the call (a Round that was replaced meanwhile is garbage)
CAddUpdatesStore(w) ==
    /\ pc[w] = "add_updates_store"
    /\ round' = IF loc[w].ref = rid
                THEN Round_store_update(round, loc[w].id, loc[w].upd)
                ELSE round
    /\ LET key == <<loc[w].ref, loc[w].id>>
       IN  /\ acceptedOnce' = acceptedOnce \cup {key}
           /\ acceptedTwice' = IF key \in acceptedOnce
                               THEN acceptedTwice \cup {key} ELSE acceptedTwice
    /\ Goto(w, "is_finished")
    /\ UNCHANGED <<cfgVars, auxVars, calls, theta, state, current_round, participants, now, last,
                   rid, loc, aggregatedOnce, aggregatedTwice>>

\* if self.round.is_finished():
CIsFinished(w) ==
    /\ pc[w] = "is_finished"
    /\ IF Round_is_finished(round)
       THEN Goto(w, "aggregate") /\ UNCHANGED <<loc, last>>
       ELSE Return(w, "none")
    /\ UNCHANGED <<cfgVars, auxVars, calls, coordVars, now, rid, acceptedOnce, acceptedTwice,
                   aggregatedOnce, aggregatedTwice>>

\* self.theta = self.aggregator.aggregate(self.round.get_theta_updates())
CAggregate(w) ==
    /\ pc[w] = "aggregate"
    /\ theta' = aggregate(Round_get_theta_updates(round))
    /\ aggregatedOnce' = aggregatedOnce \cup {rid}
    /\ aggregatedTwice' = IF rid \in aggregatedOnce
                          THEN aggregatedTwice \cup {rid} ELSE aggregatedTwice
    /\ Goto(w, "is_last_round")
    /\ UNCHANGED <<cfgVars, auxVars, calls, state, current_round, participants, round, now, last,
                   rid, loc, acceptedOnce, acceptedTwice>>

\* if self.current_round == self.num_rounds:
CIsLastRound(w) ==
    /\ pc[w] = "is_last_round"
    /\ IF is_last_round(current_round, num_rounds)
       THEN Goto(w, "finish")
       ELSE Goto(w, "increment")
    /\ UNCHANGED <<cfgVars, auxVars, calls, coordVars, now, last, rid, loc, acceptedOnce,
                   acceptedTwice, aggregatedOnce, aggregatedTwice>>

\* self.state = coordinator_pb2.State.FINISHED
CFinish(w) ==
    /\ pc[w] = "finish"
    /\ state' = "FINISHED"
    /\ Return(w, "none")
    /\ UNCHANGED <<cfgVars, auxVars, calls, theta, current_round, participants, round, now, rid,
                   acceptedOnce, acceptedTwice, aggregatedOnce, aggregatedTwice>>

\* self.current_round += 1
CIncrement(w) ==
    /\ pc[w] = "increment"
    /\ current_round' = current_round + 1
    /\ Goto(w, "select")
    /\ UNCHANGED <<cfgVars, auxVars, calls, theta, state, participants, round, now, last, rid, loc,
                   acceptedOnce, acceptedTwice, aggregatedOnce, aggregatedTwice>>

\* self.select_participant_ids_and_init_round()
CSelect(w) ==
    /\ pc[w] = "select"
    /\ select_participant_ids_and_init_round(participants)
    /\ rid' = rid + 1
    /\ Return(w, "none")
    /\ UNCHANGED <<cfgVars, auxVars, calls, theta, state, current_round, participants, now,
                   acceptedOnce, acceptedTwice, aggregatedOnce, aggregatedTwice>>

NextConc ==
    \/ \E id \in PIDs : CRendezvous(id)
    \/ \E w \in Workers, id \in PIDs, upd \in Updates : CDispatch(w, id, upd)
    \/ \E w \in Workers : COnMessage(w)
    \/ \E w \in Workers : CAddUpdatesTest(w)
    \/ \E w \in Workers : CAddUpdatesStore(w)
    \/ \E w \in Workers : CIsFinished(w)
    \/ \E w \in Workers : CAggregate(w)
    \/ \E w \in Workers : CIsLastRound(w)
    \/ \E w \in Workers : CFinish(w)
    \/ \E w \in Workers : CIncrement(w)
    \/ \E w \in Workers : CSelect(w)

SpecConc == Init /\ [][NextConc]_vars

\* ------------------- Rendezvous handlers on the worker pool -------------
RvFrame ==
    UNCHANGED <<cfgVars, auxVars, now, rid, calls, acceptedOnce, acceptedTwice,
                aggregatedOnce, aggregatedTwice>>

\* the handler returns and CoordinatorGrpc.Rendezvous sends the reply
RvReturn(w, response) ==
    /\ pc' = [pc EXCEPT ![w] = "idle"]
    /\ loc' = [loc EXCEPT ![w] = NoLocals]
    /\ last' = servicer_Rendezvous(loc[w].id, response)

\* a RendezvousRequest reaches a free worker
RvDispatch(w, id) ==
    /\ pc[w] = "idle"
    /\ Goto(w, "rv_test")
    /\ loc' = [loc EXCEPT ![w] = [NoLocals EXCEPT !.id = id]]
    /\ UNCHANGED <<coordVars, last>>
    /\ RvFrame

\* if self.participants.len() < self.minimum_connected_participants
RvTest(w) ==
    /\ pc[w] = "rv_test"
    /\ IF rendezvous_has_room(Participants_len(participants),
                              minimum_connected_participants)
       THEN Goto(w, "rv_add") /\ UNCHANGED <<loc, last>>
       ELSE RvReturn(w, "LATER")
    /\ UNCHANGED coordVars
    /\ RvFrame

\* self.participants.add(participant_id)
RvAdd(w) ==
    /\ pc[w] = "rv_add"
    /\ participants' = Participants_add(participants, loc[w].id, now)
    /\ Goto(w, "rv_len")
    /\ UNCHANGED <<theta, state, current_round, round, loc, last>>
    /\ RvFrame

\* if self.participants.len() == self.minimum_connected_participants
RvLen(w) ==
    /\ pc[w] = "rv_len"
    /\ IF rendezvous_starts_round(Participants_len(participants),
                                  minimum_connected_participants)
       THEN Goto(w, "rv_select") /\ UNCHANGED <<loc, last>>
       ELSE RvReturn(w, "ACCEPT")
    /\ UNCHANGED coordVars
    /\ RvFrame

\* select_participant_ids_and_init_round(), state = ROUND, current_round
RvSelect(w) ==
    /\ pc[w] = "rv_select"
    /\ select_participant_ids_and_init_round(participants)
    /\ state' = "ROUND"
    /\ current_round' = first_round(current_round)
    /\ RvReturn(w, "ACCEPT")
    /\ UNCHANGED <<theta, participants>>
    /\ RvFrame

NextRdv ==
    \/ \E w \in Workers, id \in PIDs : RvDispatch(w, id)
    \/ \E w \in Workers : RvTest(w)
    \/ \E w \in Workers : RvAdd(w)
    \/ \E w \in Workers : RvLen(w)
    \/ \E w \in Workers : RvSelect(w)

SpecRdv == Init /\ [][NextRdv]_vars

\* ------------------- the Coordinator with a storage collaborator --------
\* store.write(round, weights): the sink keeps what it is handed, in order
store_write(st, r, w) == Append(st, [round |-> r, weights |-> w])

\* _handle_end_training reaches the branch under self.round.is_finished()
end_training_finishes(ps, r, id, upd) ==
    /\ ~on_message_unknown("EndTraining", id, ps)
    /\ ~Round_is_duplicate(r, id)
    /\ Round_is_finished(Round_store_update(r, id, upd))

\* EndTraining of a servicer that was given a store: the round that was just
\* aggregated is written with the new weights
StoreEndTraining(id, upd) ==
    /\ handle_end_training(id, upd)
    /\ IF end_training_finishes(participants, round, id, upd)
       THEN /\ Len(store) < MaxWrites
            /\ store' = store_write(store, current_round, theta')
       ELSE UNCHANGED store
    /\ UNCHANGED <<cfgVars, now, concVars, controller, selected, otherVars>>

NextStore ==
    \/ \E id \in PIDs : Rendezvous(id)
    \/ \E id \in PIDs : Heartbeat(id)
    \/ \E id \in PIDs : StartTraining(id)
    \/ \E id \in PIDs, upd \in Updates : StoreEndTraining(id, upd)
    \/ \E id \in PIDs : RemoveParticipant(id)
    \/ MonitorCycle
    \/ Tick

SpecStore == Init /\ [][NextStore]_vars

\* ------------- a training session with well-behaved participants --------
\* Participants as xain/grpc/participant.py runs them, each on its own
\* thread or machine: a participant announces itself once, and in every round
\* it is selected for it calls StartTraining, trains and calls EndTraining
\* once. Nobody stops heartbeating, so nobody is evicted. The EndTraining
\* handlers run on the worker pool as in SpecConc.

\* a participant that is not registered yet announces itself
RunRendezvous(id) ==
    /\ id \notin DOMAIN participants
    /\ CRendezvous(id)

\* a selected participant that has not started this round yet calls
\* StartTraining, gets the weights and trains; worker slot w stands for its
\* request until its EndTraining is done
RunStartTraining(w, id) ==
    /\ pc[w] = "idle"
    /\ \A v \in Workers : loc[v].id # id
    /\ ~on_message_unknown("StartTraining", id, participants)
    /\ ~start_training_invalid(state, id, round)
    /\ ~Round_is_duplicate(round, id)
    /\ handle_start_training(id)
    /\ Goto(w, "training")
    /\ loc' = [loc EXCEPT ![w] = [NoLocals EXCEPT !.id = id]]
    /\ UNCHANGED <<cfgVars, auxVars, now, rid, calls, acceptedOnce, acceptedTwice,
                   aggregatedOnce, aggregatedTwice>>

\* the participant has trained and calls EndTraining
RunEndTraining(w, upd) ==
    /\ pc[w] = "training"
    /\ calls < MaxCalls
    /\ calls' = calls + 1
    /\ Goto(w, "on_message")
    /\ loc' = [loc EXCEPT ![w].upd = upd]
    /\ UNCHANGED <<cfgVars, auxVars, coordVars, now, last, rid, acceptedOnce,
                   acceptedTwice, aggregatedOnce, aggregatedTwice>>

NextRun ==
    \/ \E id \in PIDs : RunRendezvous(id)
    \/ \E w \in Workers, id \in PIDs : RunStartTraining(w, id)
    \/ \E w \in Workers, upd \in Updates : RunEndTraining(w, upd)
    \/ \E w \in Workers : COnMessage(w)
    \/ \E w \in Workers : CAddUpdatesTest(w)
    \/ \E w \in Workers : CAddUpdatesStore(w)
    \/ \E w \in Workers : CIsFinished(w)
    \/ \E w \in Workers : CAggregate(w)
    \/ \E w \in Workers : CIsLastRound(w)
    \/ \E w \in Workers : CFinish(w)
    \/ \E w \in Workers : CIncrement(w)
    \/ \E w \in Workers : CSelect(w)

SpecRun == Init /\ [][NextRun]_vars

\* ------------------- the Controller and the threshold on their own ------
\* the fractions in (0, 1] in lowest terms with a denominator up to MaxDen
AllFractions ==
    {[num |-> n, den |-> d] : <<n, d>> \in
        {x \in (1..MaxDen) \X (1..MaxDen) : x[1] <= x[2] /\ GCD(x[1], x[2]) = 1}}

CandidateIds == {PidNames[i] : i \in 1..MaxCandidates}

\* Coordinator.__init__ for every minimum_participants_in_round and fraction
InitFn ==
    /\ num_rounds = 1
    /\ minimum_participants_in_round \in 1..MaxMinInRound
    /\ fraction_of_participants \in AllFractions
    /\ minimum_connected_participants =
           get_minimum_connected_participants(minimum_participants_in_round,
                                              fraction_of_participants)
    /\ epochs = 5
    /\ epoch_base = 2
    /\ theta = [num |-> 0, den |-> 1]
    /\ participants = <<>>
    /\ round = NewRound(<<>>)
    /\ state = "STANDBY"
    /\ current_round = 0
    /\ now = 0
    /\ last = Outcome("init", NoPid, "none", "none", "OK", EmptyReply)
    /\ rid = 0
    /\ pc = [w \in Workers |-> "idle"]
    /\ loc = [w \in Workers |-> NoLocals]
    /\ calls = 0
    /\ acceptedOnce = {}
    /\ acceptedTwice = {}
    /\ aggregatedOnce = {}
    /\ aggregatedTwice = {}
    /\ controller = Controller_init({}, [num |-> 1, den |-> 1])
    /\ selected = <<>>
    /\ store = <<>>
    /\ InitOther

\* RandomController(participants_ids=..., fraction_of_participants=...)
FnNewController(ids) ==
    /\ controller' = Controller_init(ids, fraction_of_participants)
    /\ selected' = <<>>
    /\ last' = Outcome("Controller", NoPid, "none", "none", "OK", EmptyReply)
    /\ UNCHANGED <<cfgVars, coordVars, now, concVars, store, otherVars>>

\* RandomController.select_ids on a Controller that was given ids
FnSelectIds ==
    /\ controller.participant_ids # {}
    /\ selected' \in Arrangements(controller.participant_ids,
                                   controller.num_ids_to_select)
    /\ last' = Outcome("select_ids", NoPid, "none", "none", "OK", EmptyReply)
    /\ UNCHANGED <<cfgVars, coordVars, now, concVars, controller, store, otherVars>>

NextFn ==
    \/ \E ids \in SUBSET CandidateIds : FnNewController(ids)
    \/ FnSelectIds

SpecFn == InitFn /\ [][NextFn]_vars

\* ------------------- the heartbeat monitor thread, step by step ---------
MonFrame == UNCHANGED <<cfgVars, now, concVars, controller, selected, store,
                        objVars, lockVars, histVars>>

\* variant: the loop goes on whatever the event says
monitor_continues_always(ev) == TRUE

\* while not terminate_event.is_set()
monitor_continues(ev) == ~ev

\* the loop test, and for a cycle that begins: participants_to_remove = []
\* and the iterator over coordinator.participants.participants.values() is
\* created; signal_at_start remembers what the event said when the cycle began
MonLoop ==
    /\ mon.pc = "loop"
    /\ IF monitor_continues(mon.terminate_event)
       THEN mon' = [mon EXCEPT !.pc = "scan", !.seen = {}, !.to_remove = {},
                               !.size = Cardinality(DOMAIN participants),
                               !.signal_at_start = mon.terminate_event]
       ELSE mon' = [mon EXCEPT !.pc = "exited"]
    /\ UNCHANGED <<coordVars, last>>
    /\ MonFrame

\* one turn of the for loop over the dict, which is read without the
\* registry's lock: the iterator raises RuntimeError when the dict has
\* changed size since it was created, ends when every entry was visited,
\* and otherwise yields an entry whose deadline is tested
MonScan ==
    /\ mon.pc = "scan"
    /\ IF Cardinality(DOMAIN participants) # mon.size
       THEN mon' = [mon EXCEPT !.pc = "dead", !.raised = "RuntimeError"]
       ELSE IF DOMAIN participants \ mon.seen = {}
       THEN mon' = [mon EXCEPT !.pc = "remove"]
       ELSE \E id \in DOMAIN participants \ mon.seen :
               mon' = [mon EXCEPT
                         !.seen = @ \cup {id},
                         !.to_remove = @ \cup expired([p \in {id} |-> participants[p]], now)]
    /\ UNCHANGED <<coordVars, last>>
    /\ MonFrame

\* for participant_id in participants_to_remove:
\*     coordinator.remove_participant(participant_id)
MonRemove ==
    /\ mon.pc = "remove"
    /\ IF mon.to_remove = {}
       THEN /\ mon' = [mon EXCEPT !.pc = "next_expiration"]
            /\ UNCHANGED <<coordVars, last>>
       ELSE \E id \in mon.to_remove :
               /\ remove_participants({id})
               /\ mon' = [mon EXCEPT !.to_remove = @ \ {id}]
               /\ last' = Outcome("remove_participant", id, "none", "none",
                                  "OK", EmptyReply)
    /\ MonFrame

\* the left operand of the subtraction: coordinator.participants.next_expiration()
MonNextExpiration ==
    /\ mon.pc = "next_expiration"
    /\ mon' = [mon EXCEPT
                 !.pc = "subtract",
                 !.next_expiration = Participants_next_expiration(participants, now)]
    /\ UNCHANGED <<coordVars, last>>
    /\ MonFrame

\* next_expiration = ... - time.time()
MonSubtract ==
    /\ mon.pc = "subtract"
    /\ mon' = [mon EXCEPT !.pc = "sleep", !.sleep = mon.next_expiration - now]
    /\ UNCHANGED <<coordVars, last>>
    /\ MonFrame

\* time.sleep(next_expiration): ValueError for a negative duration
MonSleep ==
    /\ mon.pc = "sleep"
    /\ IF mon.sleep < 0
       THEN mon' = [mon EXCEPT !.pc = "dead", !.raised = "ValueError"]
       ELSE mon' = [mon EXCEPT !.pc = "sleeping", !.wake = now + mon.sleep]
    /\ UNCHANGED <<coordVars, last>>
    /\ MonFrame

\* time.sleep returns once the duration has passed
MonWake ==
    /\ mon.pc = "sleeping"
    /\ now >= mon.wake
    /\ mon' = [mon EXCEPT !.pc = "loop"]
    /\ UNCHANGED <<coordVars, last>>
    /\ MonFrame

\* the monitor thread next to the handlers that touch the registry
NextMon ==
    \/ \E id \in PIDs : Rendezvous(id)
    \/ \E id \in PIDs : Heartbeat(id)
    \/ Tick
    \/ MonLoop
    \/ MonScan
    \/ MonRemove
    \/ MonNextExpiration
    \/ MonSubtract
    \/ MonSleep
    \/ MonWake

SpecMon == Init /\ [][NextMon]_vars

\* ------------------- the locks of the registry and of a Round -----------
\* the methods whose body is a `with self._lock:` block
RegistryMethods ==
    {"Participants.add", "Participants.remove",
     "Participants.next_expiration", "Participants.len", "Participants.ids",
     "Participants.update_expires"}
RoundMethods ==
    {"Round.add_selected", "Round.remove_selected", "Round.add_updates",
     "Round.is_finished", "Round.get_weight_updates"}

\* what monitor_heartbeats calls: remove and len through
\* Coordinator.remove_participant, then next_expiration
MonitorMethods ==
    {"Participants.remove", "Participants.len", "Participants.next_expiration"}

lock_of(m) == IF m \in RegistryMethods THEN "registry" ELSE "round"

\* the locks a thread holds
held(t) == {L \in Locks : t \in lk[L]}

\* threading.Lock.__enter__ blocks while the lock is taken
with_enter_blocks(l, L) == l[L] # {}
with_enter(l, L, t) == [l EXCEPT ![L] = @ \cup {t}]

\* variant: leaving the block does not release the lock
with_exit_keep(l, L, t) == l

\* threading.Lock.__exit__, on return and on raise alike
with_exit(l, L, t) == [l EXCEPT ![L] = @ \ {t}]

LockFrame ==
    UNCHANGED <<cfgVars, coordVars, now, last, concVars, controller, selected,
                store, objVars, monVars, histVars>>

\* a thread calls one of the locked methods; handlers and the monitor call
\* them one after the other, none from inside another
LockCall(t, m) ==
    /\ tpc[t].pc = "idle"
    /\ t = MonitorThread => m \in MonitorMethods
    /\ tpc' = [tpc EXCEPT ![t] = [pc |-> "waiting", method |-> m]]
    /\ UNCHANGED lk
    /\ LockFrame

\* with self._lock: entered
LockEnter(t) ==
    /\ tpc[t].pc = "waiting"
    /\ ~with_enter_blocks(lk, lock_of(tpc[t].method))
    /\ lk' = with_enter(lk, lock_of(tpc[t].method), t)
    /\ tpc' = [tpc EXCEPT ![t].pc = "inside"]
    /\ LockFrame

\* the block is left and the method returns or raises; the monitor goes on
\* to time.sleep after next_expiration
LockExit(t) ==
    /\ tpc[t].pc = "inside"
    /\ lk' = with_exit(lk, lock_of(tpc[t].method), t)
    /\ tpc' = [tpc EXCEPT ![t] =
                  IF t = MonitorThread
                     /\ tpc[t].method = "Participants.next_expiration"
                  THEN [pc |-> "sleeping", method |-> "time.sleep"]
                  ELSE [pc |-> "idle", method |-> "none"]]
    /\ LockFrame

\* time.sleep returns and the monitor is at the top of its loop again
LockWake ==
    /\ tpc[MonitorThread].pc = "sleeping"
    /\ tpc' = [tpc EXCEPT ![MonitorThread] =
                  [pc |-> "idle", method |-> "monitor_heartbeats"]]
    /\ UNCHANGED lk
    /\ LockFrame

NextLock ==
    \/ \E t \in LockThreads, m \in RegistryMethods \cup RoundMethods :
           LockCall(t, m)
    \/ \E t \in LockThreads : LockEnter(t)
    \/ \E t \in LockThreads : LockExit(t)
    \/ LockWake

SpecLock == Init /\ [][NextLock]_vars

\* ------------------- the monitor thread and the termination signal ------
\* serve: except KeyboardInterrupt: terminate_event.set(); server.stop(0)
Terminate ==
    /\ ~mon.terminate_event
    /\ mon' = [mon EXCEPT !.terminate_event = TRUE]
    /\ UNCHANGED <<coordVars, last>>
    /\ MonFrame

\* the clock of the model stops at MaxTicks * TickStep but time does not: a
\* sleep that ends later than that still ends
MonWakeLate ==
    /\ mon.pc = "sleeping"
    /\ now = MaxTicks * TickStep
    /\ mon.wake > now
    /\ mon' = [mon EXCEPT !.pc = "loop"]
    /\ UNCHANGED <<coordVars, last>>
    /\ MonFrame

\* the statements of the monitor thread
MonStep ==
    \/ MonLoop
    \/ MonScan
    \/ MonRemove
    \/ MonNextExpiration
    \/ MonSubtract
    \/ MonSleep
    \/ MonWake
    \/ MonWakeLate

\* the server answers requests until it is stopped
NextTerm ==
    \/ \E id \in PIDs : ~mon.terminate_event /\ Rendezvous(id)
    \/ Tick
    \/ MonStep
    \/ Terminate

\* no round ends here, so one value of num_rounds stands for all
InitTerm == Init /\ num_rounds = 1

\* the monitor thread keeps being scheduled and time keeps passing
SpecTerm ==
    InitTerm /\ [][NextTerm]_vars /\ WF_vars(MonStep) /\ WF_vars(Tick)

\* ------------------- Heartbeat handlers next to the monitor thread ------
HbFrame ==
    UNCHANGED <<cfgVars, auxVars, now, rid, calls, acceptedOnce, acceptedTwice,
                aggregatedOnce, aggregatedTwice>>

\* the handler returns or raises and CoordinatorGrpc.Heartbeat ends the RPC
HbReturn(w, err, reply) ==
    /\ pc' = [pc EXCEPT ![w] = "idle"]
    /\ loc' = [loc EXCEPT ![w] = NoLocals]
    /\ last' = servicer_Heartbeat(loc[w].id, err, reply)

\* a HeartbeatRequest reaches a free worker
HbDispatch(w, id) ==
    /\ pc[w] = "idle"
    /\ Goto(w, "hb_on_message")
    /\ loc' = [loc EXCEPT ![w] = [NoLocals EXCEPT !.id = id]]
    /\ UNCHANGED <<coordVars, last>>
    /\ HbFrame

\* Coordinator.on_message: participant_id not in self.participants.ids()
HbOnMessage(w) ==
    /\ pc[w] = "hb_on_message"
    /\ IF on_message_unknown("Heartbeat", loc[w].id, participants)
       THEN HbReturn(w, "UnknownParticipantError", EmptyReply)
       ELSE Goto(w, "hb_update_expires") /\ UNCHANGED <<loc, last>>
    /\ UNCHANGED coordVars
    /\ HbFrame

\* Coordinator._handle_heartbeat: self.participants.update_expires(id), where
\* self.participants[participant_id] raises KeyError for an absent id, and
\* the reply
HbUpdateExpires(w) ==
    /\ pc[w] = "hb_update_expires"
    /\ IF loc[w].id \notin DOMAIN participants
       THEN /\ HbReturn(w, "KeyError", EmptyReply)
            /\ UNCHANGED coordVars
       ELSE /\ participants' =
                   Participants_update_expires(participants, loc[w].id, now)
            /\ HbReturn(w, "none",
                   [EmptyReply EXCEPT !.state = heartbeat_state(loc[w].id, round),
                                      !.round = current_round])
            /\ UNCHANGED <<theta, state, current_round, round>>
    /\ HbFrame

NextBeat ==
    \/ \E id \in PIDs : Rendezvous(id)
    \/ Tick
    \/ MonLoop
    \/ MonScan
    \/ MonRemove
    \/ MonNextExpiration
    \/ MonSubtract
    \/ MonSleep
    \/ MonWake
    \/ \E w \in Workers, id \in PIDs : HbDispatch(w, id)
    \/ \E w \in Workers : HbOnMessage(w)
    \/ \E w \in Workers : HbUpdateExpires(w)

SpecBeat == Init /\ [][NextBeat]_vars

\* ------------------- one Round object, called method by method ----------
\* the lists of ids a Round is constructed with or extended by
Selections == UNION {Arrangements(PIDs, k) : k \in 0..NumIds}

\* Round(participant_ids) of either class
InitRound ==
    /\ num_rounds = 1
    /\ minimum_participants_in_round = 1
    /\ fraction_of_participants = [num |-> 1, den |-> 1]
    /\ minimum_connected_participants =
           get_minimum_connected_participants(minimum_participants_in_round,
                                              fraction_of_participants)
    /\ epochs = 5
    /\ epoch_base = 2
    /\ theta = [num |-> 0, den |-> 1]
    /\ participants = <<>>
    /\ state = "STANDBY"
    /\ current_round = 0
    /\ now = 0
    /\ last = Outcome("init", NoPid, "none", "none", "OK", EmptyReply)
    /\ rid = 0
    /\ pc = [w \in Workers |-> "idle"]
    /\ loc = [w \in Workers |-> NoLocals]
    /\ calls = 0
    /\ acceptedOnce = {}
    /\ acceptedTwice = {}
    /\ aggregatedOnce = {}
    /\ aggregatedTwice = {}
    /\ controller = Controller_init({}, [num |-> 1, den |-> 1])
    /\ selected = <<>>
    /\ store = <<>>
    /\ mon = MonInit
    /\ lk = [l \in Locks |-> {}]
    /\ tpc = [t \in LockThreads |-> [pc |-> "idle", method |-> "none"]]
    /\ started = {}
    /\ \E ids \in Selections :
          \/ /\ rnd = R_init(ids)
             /\ round = NewRound(<<>>)
             /\ result = [NoResult EXCEPT !.obj = "round.py", !.op = "init"]
          \/ /\ round = NewRound(ids)
             /\ rnd = R_init(<<>>)
             /\ result = [NoResult EXCEPT !.obj = "coordinator.py", !.op = "init"]

RoundFrame ==
    UNCHANGED <<cfgVars, theta, state, current_round, participants, now, last,
                concVars, controller, selected, store, monVars, lockVars,
                histVars>>

Returned(op, error) ==
    [NoResult EXCEPT !.obj = result.obj, !.op = op, !.error = error]

CallAddSelected(more_ids) ==
    /\ result.obj = "round.py"
    /\ Len(rnd.participant_ids) + Len(more_ids) <= MaxListLen
    /\ rnd' = R_add_selected(rnd, more_ids)
    /\ result' = Returned("add_selected", "none")
    /\ UNCHANGED round
    /\ RoundFrame

CallRemoveSelected(id) ==
    /\ result.obj = "round.py"
    /\ rnd' = R_remove_selected(rnd, id)
    /\ result' = [Returned("remove_selected", "none") EXCEPT !.arg = id]
    /\ UNCHANGED round
    /\ RoundFrame

CallAddUpdates(id, upd) ==
    /\ result.obj = "round.py"
    /\ IF R_add_updates_raises(rnd, id)
       THEN /\ result' = Returned("add_updates", "DuplicatedUpdateError")
            /\ UNCHANGED rnd
       ELSE /\ rnd' = R_add_updates(rnd, id, upd.theta_prime, upd.num_examples)
            /\ result' = Returned("add_updates", "none")
    /\ UNCHANGED round
    /\ RoundFrame

CallIsFinished ==
    /\ result.obj = "round.py"
    /\ result' = [Returned("is_finished", "none")
                     EXCEPT !.finished = R_is_finished(rnd)]
    /\ UNCHANGED <<rnd, round>>
    /\ RoundFrame

CallGetWeightUpdates ==
    /\ result.obj = "round.py"
    /\ IF R_get_weight_updates_raises(rnd)
       THEN result' = Returned("get_updates", "KeyError")
       ELSE result' = [Returned("get_updates", "none")
                          EXCEPT !.weights = R_get_weight_updates(rnd).weights,
                                 !.data = R_get_weight_updates(rnd).data]
    /\ UNCHANGED <<rnd, round>>
    /\ RoundFrame

\* add_updates of the Round class in grpc/coordinator.py
CallInlineAddUpdates(id, upd) ==
    /\ result.obj = "coordinator.py"
    /\ IF Round_is_duplicate(round, id)
       THEN /\ result' = Returned("add_updates", "DuplicatedUpdateError")
            /\ UNCHANGED round
       ELSE /\ round' = Round_store_update(round, id, upd)
            /\ result' = Returned("add_updates", "none")
    /\ UNCHANGED rnd
    /\ RoundFrame

CallInlineIsFinished ==
    /\ result.obj = "coordinator.py"
    /\ result' = [Returned("is_finished", "none")
                     EXCEPT !.finished = Round_is_finished(round)]
    /\ UNCHANGED <<rnd, round>>
    /\ RoundFrame

\* get_theta_updates: a list of (weights, number of examples) pairs
CallGetThetaUpdates ==
    /\ result.obj = "coordinator.py"
    /\ result' = [Returned("get_updates", "none")
                     EXCEPT !.theta_updates = Round_get_theta_updates(round)]
    /\ UNCHANGED <<rnd, round>>
    /\ RoundFrame

NextRound ==
    \/ \E more_ids \in Selections \ {<<>>} : CallAddSelected(more_ids)
    \/ \E id \in PIDs : CallRemoveSelected(id)
    \/ \E id \in PIDs, upd \in Updates : CallAddUpdates(id, upd)
    \/ CallIsFinished
    \/ CallGetWeightUpdates
    \/ \E id \in PIDs, upd \in Updates : CallInlineAddUpdates(id, upd)
    \/ CallInlineIsFinished
    \/ CallGetThetaUpdates

SpecRound == InitRound /\ [][NextRound]_vars

\* ================================ claims ================================

\* C1: state changes only along the diagram's arrows: STANDBY -> ROUND by a
\* rendezvous, ROUND -> STANDBY by remove_participant, ROUND -> FINISHED by
\* an end_training that completes round num_rounds; no other change occurs.
C1_TransitionsFollowDiagram ==
    [][state' # state =>
         \/ /\ state = "STANDBY" /\ state' = "ROUND"
            /\ last'.op = "Rendezvous"
         \/ /\ state = "ROUND" /\ state' = "STANDBY"
            /\ last'.op \in {"remove_participant", "monitor"}
         \/ /\ state = "ROUND" /\ state' = "FINISHED"
            /\ last'.op = "EndTraining"
            /\ current_round = num_rounds]_vars

\* C2: FINISHED is terminal: once state = FINISHED, every further operation
\* leaves state = FINISHED, current_round = num_rounds, and round.updates
\* and the global weights as they are.
C2_FinishedIsTerminal ==
    [][state = "FINISHED" =>
         /\ state' = "FINISHED"
         /\ current_round' = num_rounds
         /\ round'.updates = round.updates
         /\ theta' = theta]_vars

\* C3: when concurrent end_training handlers (each id submitting once per
\* Round) together complete a round, the Round object is aggregated exactly
\* once and current_round advances by exactly one per aggregated round.
C3_AggregatesOncePerRound ==
    acceptedTwice = {} =>
        /\ aggregatedTwice = {}
        /\ current_round <= Cardinality(aggregatedOnce) + 1

\* C4: the registry size never exceeds min_connected; a rendezvous from a new
\* id arriving at registry size = min_connected is answered LATER and leaves
\* the registry, state, current_round, weights and the Round unchanged.
C4_RegistryBounded ==
    [][/\ Participants_len(participants') <= minimum_connected_participants
       /\ (/\ last'.op = "Rendezvous"
           /\ last'.id \notin DOMAIN participants
           /\ Participants_len(participants) = minimum_connected_participants)
          => (last'.reply.response = "LATER" /\ UNCHANGED coordVars)]_vars

\* C4 witness: a new id was answered LATER by a full registry
C4_Witness ==
    /\ last.op = "Rendezvous"
    /\ last.reply.response = "LATER"
    /\ last.id \notin DOMAIN participants
    /\ Participants_len(participants) = minimum_connected_participants

\* C5: for every Round object and participant id at most one end_training
\* submission is accepted, also when two submissions by the same id race.
C5_AtMostOneAccepted == acceptedTwice = {}

\* C6: a heartbeat, start_training or end_training whose caller is absent
\* from the registry fails with UnknownParticipant (PERMISSION_DENIED) and
\* changes neither the registry and its deadlines nor state, current_round,
\* weights, participants_selected or round.updates.
C6_UnknownParticipantRejected ==
    [][(/\ last'.op \in {"Heartbeat", "StartTraining", "EndTraining"}
        /\ last'.id \notin DOMAIN participants)
       => /\ last'.error = "UnknownParticipantError"
          /\ last'.raised = "none"
          /\ last'.code = "PERMISSION_DENIED"
          /\ last'.reply = EmptyReply
          /\ UNCHANGED coordVars]_vars

\* C6 witness: an unregistered caller was denied while others are registered
C6_Witness ==
    /\ last.op \in {"Heartbeat", "StartTraining", "EndTraining"}
    /\ last.code = "PERMISSION_DENIED"
    /\ last.id \notin DOMAIN participants
    /\ participants # <<>>

\* C7 as claimed: a rendezvous by an id that is already in the registry
\* returns ACCEPT and leaves the registry size unchanged, also when the
\* registry size is min_connected.
C7_ReRendezvousAccepted ==
    [][(last'.op = "Rendezvous" /\ last'.id \in DOMAIN participants)
       => /\ last'.reply.response = "ACCEPT"
          /\ Participants_len(participants') = Participants_len(participants)]_vars

\* C7 amended: a rendezvous by an id that is already in the registry leaves
\* the registry size unchanged in every state; it returns ACCEPT when the
\* registry size is below min_connected and LATER when it is min_connected.
C7_ReRendezvousKeepsSize ==
    [][(last'.op = "Rendezvous" /\ last'.id \in DOMAIN participants)
       => /\ Participants_len(participants') = Participants_len(participants)
          /\ DOMAIN participants' = DOMAIN participants
          /\ last'.reply.response =
                IF Participants_len(participants) < minimum_connected_participants
                THEN "ACCEPT" ELSE "LATER"]_vars

\* C7 witness: a registered id announced itself again to a full registry
C7_Witness ==
    /\ last.op = "Rendezvous"
    /\ last.id \in DOMAIN participants
    /\ last.reply.response = "LATER"

\* C8: while no round has started, a rendezvous by a new id that leaves the
\* registry below min_connected is answered ACCEPT with state STANDBY and
\* current_round 0; the one that brings it to min_connected is answered
\* ACCEPT and in the same operation creates a Round from a selection over
\* the registry, sets state to ROUND and current_round to 1.
C8_FirstRoundStarts ==
    [][(/\ last'.op = "Rendezvous"
        /\ current_round = 0
        /\ last'.id \notin DOMAIN participants)
       => /\ last'.reply.response = "ACCEPT"
          /\ DOMAIN participants' = DOMAIN participants \cup {last'.id}
          /\ IF Participants_len(participants') < minimum_connected_participants
             THEN /\ state = "STANDBY" /\ state' = "STANDBY"
                  /\ current_round' = 0
             ELSE /\ state' = "ROUND"
                  /\ current_round' = 1
                  /\ round'.updates = <<>>
                  /\ round'.participant_ids # <<>>
                  /\ Range(round'.participant_ids) \subseteq DOMAIN participants'
                  /\ Cardinality(Range(round'.participant_ids))
                        = Len(round'.participant_ids)]_vars

\* C8 witness: the second of two distinct rendezvous started round 1
C8_Witness ==
    /\ last.op = "Rendezvous"
    /\ last.reply.response = "ACCEPT"
    /\ state = "ROUND"
    /\ current_round = 1
    /\ Participants_len(participants) = 2
    /\ round.updates = <<>>

\* C9: start_training by a registered id succeeds iff state = ROUND and the
\* id is in round.participant_ids, otherwise it fails with InvalidRequest;
\* a success replies the current weights, epochs and epoch_base; either way
\* the registry, state, current_round, weights and Round are unchanged.
C9_StartTrainingPrecondition ==
    [][(last'.op = "StartTraining" /\ last'.id \in DOMAIN participants)
       => /\ UNCHANGED coordVars
          /\ IF state = "ROUND" /\ last'.id \in Range(round.participant_ids)
             THEN /\ last'.error = "none"
                  /\ last'.reply.theta = ndarray_to_proto(theta)
                  /\ last'.reply.epochs = epochs
                  /\ last'.reply.epoch_base = epoch_base
             ELSE last'.error = "InvalidRequestError"]_vars

\* C9 witness: a selected participant received the aggregated weights of
\* round 1 when it started round 2
C9_Witness ==
    /\ last.op = "StartTraining"
    /\ last.error = "none"
    /\ current_round = 2
    /\ last.reply.theta = ndarray_to_proto(theta)
    /\ theta # [num |-> 0, den |-> 1]

\* C10: a StartTraining call that the Coordinator rejects with InvalidRequest
\* completes with status FAILED_PRECONDITION and an empty reply, and the
\* handler raises no other error.
C10_InvalidRequestIsFailedPrecondition ==
    (last.op = "StartTraining" /\ last.error = "InvalidRequestError")
    => /\ last.code = "FAILED_PRECONDITION"
       /\ last.raised = "none"
       /\ last.reply = EmptyReply

\* C11: a heartbeat from a registered id refreshes that id's deadline and
\* replies round = current_round and state = ROUND if the id is in the
\* Round's selection, STANDBY otherwise; the Coordinator's state,
\* current_round, weights and Round are not altered, nor is any other
\* participant's deadline.
C11_HeartbeatRefreshesAndReports ==
    [][(last'.op = "Heartbeat" /\ last'.id \in DOMAIN participants)
       => /\ last'.error = "none"
          /\ last'.code = "OK"
          /\ participants' =
                [participants EXCEPT
                    ![last'.id] = now + HEARTBEAT_TIME + HEARTBEAT_TIMEOUT]
          /\ last'.reply.round = current_round
          /\ last'.reply.state =
                IF \E i \in 1..Len(round.participant_ids) :
                       round.participant_ids[i] = last'.id
                THEN "ROUND" ELSE "STANDBY"
          /\ UNCHANGED <<theta, state, current_round, round>>]_vars

\* C11 witness: during a round a registered participant that was not selected
\* heartbeated after time had passed and was told STANDBY
C11_Witness ==
    /\ last.op = "Heartbeat"
    /\ last.error = "none"
    /\ last.reply.state = "STANDBY"
    /\ last.reply.round = 1
    /\ state = "ROUND"
    /\ now > 0
    /\ last.id \in DOMAIN participants
    /\ last.id \notin Range(round.participant_ids)
    /\ participants[last.id] = now + HEARTBEAT_TIME + HEARTBEAT_TIMEOUT

\* C12: once the Coordinator's state is FINISHED, a heartbeat from a
\* registered participant is answered with state FINISHED.
C12_FinishedIsAdvertised ==
    [][(/\ state = "FINISHED"
        /\ last'.op = "Heartbeat"
        /\ last'.id \in DOMAIN participants)
       => last'.reply.state = "FINISHED"]_vars

\* C13: the key set of round.updates is a subset of the ids selected for that
\* Round: an end_training from a registered but non-selected id, or one that
\* arrives while no round is in progress, is never recorded.
C13_UpdatesFromSelectedOnly ==
    \A i \in 1..Len(round.updates) :
        \E j \in 1..Len(round.participant_ids) :
            round.participant_ids[j] = round.updates[i].pid

\* C14: a monitor cycle removes exactly the participants whose deadline is
\* earlier than the current time and leaves the deadlines of the others as
\* they are; if a removal leaves the registry below min_connected while state
\* is ROUND, state becomes STANDBY.
C14_MonitorEvictsExpired ==
    [][last'.op = "monitor"
       => /\ DOMAIN participants' = {p \in DOMAIN participants : participants[p] >= now}
          /\ \A p \in DOMAIN participants' : participants'[p] = participants[p]
          /\ (/\ DOMAIN participants' # DOMAIN participants
              /\ Cardinality(DOMAIN participants') < minimum_connected_participants
              /\ state = "ROUND")
             => state' = "STANDBY"]_vars

\* C14 witness: after a monitor cycle during round 1 the Coordinator is back
\* in STANDBY, one participant is gone and the one whose deadline is reached
\* but not passed is still registered
C14_Witness ==
    /\ last.op = "monitor"
    /\ state = "STANDBY"
    /\ current_round = 1
    /\ minimum_connected_participants = 2
    /\ Cardinality(DOMAIN participants) = 1
    /\ \A p \in DOMAIN participants : participants[p] = now

\* C15: for every candidate list of size n >= 1 and every fraction in (0, 1]
\* the selector returns exactly k = min(n, max(1, ceil(n * fraction))) ids,
\* all distinct and all drawn from the candidate list.
C15_SelectorReturnsK ==
    last.op = "select_ids" =>
        LET n == Cardinality(controller.participant_ids)
            f == controller.fraction_of_participants
            c == CHOOSE c \in 0..n : /\ c * f.den >= n * f.num
                                     /\ (c - 1) * f.den < n * f.num
            k == IF c < 1 THEN 1 ELSE IF c > n THEN n ELSE c
        IN  /\ Len(selected) = k
            /\ \A i, j \in 1..Len(selected) : i # j => selected[i] # selected[j]
            /\ \A i \in 1..Len(selected) : selected[i] \in controller.participant_ids

\* C15 witness: two of three candidates were selected at fraction 1/2
C15_Witness ==
    /\ last.op = "select_ids"
    /\ Cardinality(controller.participant_ids) = 3
    /\ controller.fraction_of_participants = [num |-> 1, den |-> 2]
    /\ Len(selected) = 2

\* C16: for every integer min_in_round >= 1 and every fraction in (0, 1] the
\* admission threshold min_connected equals ceil(min_in_round / fraction).
C16_ThresholdIsCeiling ==
    /\ minimum_connected_participants * fraction_of_participants.num
          >= minimum_participants_in_round * fraction_of_participants.den
    /\ (minimum_connected_participants - 1) * fraction_of_participants.num
          < minimum_participants_in_round * fraction_of_participants.den

\* C17: if min_connected distinct participants rendezvous, none is evicted
\* and in every round each selected participant calls start_training and
\* then end_training once, the Coordinator reaches FINISHED with
\* current_round = num_rounds after exactly num_rounds aggregations: the
\* round counter never passes num_rounds (it never decreases, so past
\* num_rounds FINISHED is out of reach), and when the session has finished
\* every Round was aggregated once, num_rounds aggregations in all.
C17_FinishesAfterNumRounds ==
    /\ current_round <= num_rounds
    /\ (state = "FINISHED" /\ AllIdle)
       => /\ current_round = num_rounds
          /\ aggregatedTwice = {}
          /\ Cardinality(aggregatedOnce) = num_rounds

\* C18: whenever state = ROUND, between operations that run one at a time,
\* 1 <= current_round <= num_rounds and the Round's selection is non-empty;
\* and every Round that is created (when a rendezvous starts a round, when an
\* end_training rolls over to the next round) selects only ids that are in
\* the registry at that moment.
C18_RoundStateWellFormed ==
    [][/\ state' = "ROUND"
          => /\ 1 <= current_round' /\ current_round' <= num_rounds
             /\ round'.participant_ids # <<>>
       /\ (\/ /\ last'.op = "Rendezvous"
              /\ last'.reply.response = "ACCEPT"
              /\ Cardinality(DOMAIN participants') = minimum_connected_participants
           \/ /\ last'.op = "EndTraining"
              /\ current_round' # current_round)
          => /\ round'.updates = <<>>
             /\ \A i \in 1..Len(round'.participant_ids) :
                    round'.participant_ids[i] \in DOMAIN participants']_vars

\* C18 witness: the end_training that finished round 1 created the Round of
\* round 2, selected among the registered participants
C18_Witness ==
    /\ last.op = "EndTraining"
    /\ last.error = "none"
    /\ state = "ROUND"
    /\ current_round = 2
    /\ round.updates = <<>>
    /\ round.participant_ids # <<>>
    /\ theta # [num |-> 0, den |-> 1]

\* C19: whenever state = STANDBY, between operations that run one at a time,
\* the registry holds fewer than min_connected participants; an admission
\* that brings the registry to min_connected leaves the Coordinator in ROUND.
C19_StandbyBelowThreshold ==
    [][/\ state' = "STANDBY"
          => Cardinality(DOMAIN participants') < minimum_connected_participants
       /\ (/\ last'.op = "Rendezvous"
           /\ Cardinality(DOMAIN participants) < minimum_connected_participants
           /\ Cardinality(DOMAIN participants') = minimum_connected_participants)
          => state' = "ROUND"]_vars

\* C19 witness: after an eviction in round 2 put the Coordinator in STANDBY,
\* the rendezvous that filled the registry again put it back in ROUND
C19_Witness ==
    /\ last.op = "Rendezvous"
    /\ last.reply.response = "ACCEPT"
    /\ state = "ROUND"
    /\ current_round = 2
    /\ minimum_connected_participants = 2
    /\ Cardinality(DOMAIN participants) = 2
    /\ round.updates = <<>>

\* C20: a store write for round r with the aggregated weights happens when
\* the end_training that completes round r is processed and never while some
\* selected participant of round r has not yet submitted: every write is
\* write(current_round, new weights), every id selected for the round has
\* submitted by then, and no write for that round was made before.
C20_WriteWhenRoundComplete ==
    [][store' # store
       => /\ last'.op = "EndTraining"
          /\ store' = Append(store, [round |-> current_round, weights |-> theta'])
          /\ \A i \in 1..Len(round.participant_ids) :
                \/ round.participant_ids[i] = last'.id
                \/ \E j \in 1..Len(round.updates) :
                      round.updates[j].pid = round.participant_ids[i]
          /\ \A k \in 1..Len(store) : store[k].round # current_round]_vars

\* C22: a registered participant whose accepted heartbeats (and initial
\* rendezvous) are never more than heartbeat_period + heartbeat_timeout apart
\* is never removed by the monitor: every accepted rendezvous or heartbeat
\* sets the caller's deadline to now + heartbeat_period + heartbeat_timeout,
\* no operation moves a registered participant's deadline back, and a
\* monitor cycle keeps every participant whose last accepted rendezvous or
\* heartbeat is at most heartbeat_period + heartbeat_timeout old.
C22_HeartbeatingParticipantStays ==
    [][/\ (/\ last'.op \in {"Rendezvous", "Heartbeat"}
           /\ last'.error = "none"
           /\ last'.reply.response # "LATER")
          => /\ last'.id \in DOMAIN participants'
             /\ participants'[last'.id] = now + HEARTBEAT_TIME + HEARTBEAT_TIMEOUT
       /\ \A p \in DOMAIN participants \cap DOMAIN participants' :
              participants'[p] >= participants[p]
       /\ last'.op = "monitor"
          => \A p \in DOMAIN participants :
                 now - (participants[p] - HEARTBEAT_TIME - HEARTBEAT_TIMEOUT)
                     <= HEARTBEAT_TIME + HEARTBEAT_TIMEOUT
                 => p \in DOMAIN participants']_vars

\* C22 witness: at the last tick a monitor cycle ran during a round and both
\* participants are still registered with deadlines that are not passed
C22_Witness ==
    /\ last.op = "monitor"
    /\ now = MaxTicks * TickStep
    /\ state = "ROUND"
    /\ Cardinality(DOMAIN participants) = 2
    /\ \A p \in DOMAIN participants : participants[p] >= now

\* C23: a participant that submitted its update in round N can start round
\* N+1 only after it has received a heartbeat reply whose round is N+1 (so a
\* start_training that directly follows the participant's own end_training,
\* the one that rolled the round over, does not succeed); and heartbeat
\* replies never go back to an earlier round.
C23_StartAfterHeartbeat ==
    [][/\ (/\ last.op = "EndTraining"
           /\ last.error = "none"
           /\ round.updates = <<>>
           /\ last'.op = "StartTraining"
           /\ last'.id = last.id)
          => last'.error # "none"
       /\ current_round' >= current_round
       /\ (last'.op = "Heartbeat" /\ last'.error = "none")
          => last'.reply.round = current_round']_vars

\* C24: when an accepted end_training brings the number of updates to the
\* number of selected ids (Round.is_finished() answers true), the updates of
\* the Round, the new one included, are aggregated into the new weights; if
\* current_round = num_rounds, state becomes FINISHED and the Round is left
\* in place; otherwise current_round increases by exactly 1, a new Round with
\* empty updates is created from a fresh selection over the registry and
\* state is unchanged. An accepted end_training that does not finish the
\* round only appends its update to round.updates.
C24_EndTrainingFinishesRound ==
    [][(last'.op = "EndTraining" /\ last'.error = "none")
       => /\ participants' = participants
          /\ IF Len(round.updates) + 1 = Len(round.participant_ids)
             THEN /\ \E upd \in Updates :
                        theta' = aggregate(
                            [i \in 1..Len(round.updates) |-> round.updates[i].theta_update]
                            \o <<upd>>)
                  /\ IF current_round = num_rounds
                     THEN /\ state' = "FINISHED"
                          /\ current_round' = current_round
                          /\ round'.participant_ids = round.participant_ids
                          /\ Len(round'.updates) = Len(round.updates) + 1
                          /\ \A i \in 1..Len(round.updates) :
                                 round'.updates[i] = round.updates[i]
                          /\ round'.updates[Len(round'.updates)].pid = last'.id
                          /\ theta' = aggregate(
                                [i \in 1..Len(round'.updates) |->
                                    round'.updates[i].theta_update])
                     ELSE /\ current_round' = current_round + 1
                          /\ state' = state
                          /\ round'.updates = <<>>
                          /\ round'.participant_ids # <<>>
                          /\ \A i \in 1..Len(round'.participant_ids) :
                                 round'.participant_ids[i] \in DOMAIN participants
                          /\ \A i, j \in 1..Len(round'.participant_ids) :
                                 i # j => round'.participant_ids[i] # round'.participant_ids[j]
             ELSE /\ UNCHANGED <<theta, state, current_round>>
                  /\ round'.participant_ids = round.participant_ids
                  /\ \E upd \in Updates :
                        round'.updates =
                            Append(round.updates, [pid |-> last'.id, theta_update |-> upd])]_vars

\* C24 witness: the second of two different updates finished the last round
\* and the weights are their weighted mean
C24_Witness ==
    /\ last.op = "EndTraining"
    /\ last.error = "none"
    /\ state = "FINISHED"
    /\ current_round = num_rounds
    /\ Len(round.updates) = 2
    /\ theta = [num |-> 7, den |-> 4]

\* C25: remove_participant(id) deletes id from the registry (no-op if
\* absent) and sets state to STANDBY only if the registry is then below
\* min_connected and state was ROUND; it never changes current_round, the
\* weights, the Round's selection or its updates.
C25_RemoveParticipantEffect ==
    [][last'.op = "remove_participant"
       => /\ DOMAIN participants' = DOMAIN participants \ {last'.id}
          /\ \A p \in DOMAIN participants' : participants'[p] = participants[p]
          /\ state' = IF /\ Cardinality(DOMAIN participants')
                               < minimum_connected_participants
                         /\ state = "ROUND"
                      THEN "STANDBY" ELSE state
          /\ UNCHANGED <<current_round, theta, round>>]_vars

\* C28: the weights change only inside an accepted end_training that
\* finishes a round (it brings the number of updates to the number of
\* selected ids); every other operation and every failed call leaves them.
C28_WeightsChangeOnlyAtRoundEnd ==
    [][theta' # theta
       => /\ last'.op = "EndTraining"
          /\ last'.error = "none"
          /\ Len(round.updates) + 1 = Len(round.participant_ids)]_vars

\* C28 witness: the weights aggregated in round 1 are still in place after a
\* participant was removed and the Coordinator fell back to STANDBY
C28_Witness ==
    /\ last.op = "remove_participant"
    /\ state = "STANDBY"
    /\ current_round = 2
    /\ theta = [num |-> 2, den |-> 1]

\* the updates each class of Round holds, and its selection
HeldKeys ==
    IF result.obj = "round.py" THEN R_UpdateKeys(rnd) ELSE UpdateKeys(round)
HeldSelection ==
    IF result.obj = "round.py" THEN rnd.participant_ids
    ELSE round.participant_ids

\* C26: is_finished() returns true exactly when every selected id has an
\* entry in updates, whatever the selection and the recorded updates are.
C26_IsFinishedIffAllSelectedUpdated ==
    result.op = "is_finished" =>
        (result.finished <=> \A id \in Range(HeldSelection) : id \in HeldKeys)

\* C27: once every selected id has an update, the lists handed to the
\* aggregator hold, at position i, the weights and the sample count of the
\* update of the i-th selected id.
C27_UpdatesInSelectionOrder ==
    (/\ result.op = "get_updates"
     /\ result.error = "none"
     /\ \A id \in Range(HeldSelection) : id \in HeldKeys
     /\ result.obj = "coordinator.py" => Round_is_finished(round))
    => IF result.obj = "round.py"
       THEN /\ Len(result.weights) = Len(rnd.participant_ids)
            /\ Len(result.data) = Len(rnd.participant_ids)
            /\ \A i \in 1..Len(rnd.participant_ids) :
                  /\ result.weights[i] =
                       R_update_of(rnd, rnd.participant_ids[i]).model_weights
                  /\ result.data[i] =
                       R_update_of(rnd, rnd.participant_ids[i]).aggregation_data
       ELSE /\ Len(result.theta_updates) = Len(round.participant_ids)
            /\ \A i \in 1..Len(round.participant_ids) :
                  \E j \in 1..Len(round.updates) :
                      /\ round.updates[j].pid = round.participant_ids[i]
                      /\ result.theta_updates[i] = round.updates[j].theta_update

\* C21: the registry is read and changed only under its mutex, the
\* monitor's scan included, so the mapping never changes while the monitor
\* iterates it.
C21_NoChangeDuringScan ==
    [][mon.pc = "scan" => participants' = participants]_vars

\* C30: the duration the monitor hands to time.sleep is strictly positive.
C30_SleepDurationPositive ==
    mon.pc = "sleep" => mon.sleep > 0

\* C29: no thread waits for the registry's or the Round's lock while it
\* holds a lock, no thread holds two locks, whoever holds a lock another
\* thread waits for is running inside the locked block (so no cycle of
\* waiting threads forms), and the monitor holds no lock while it sleeps.
C29_NoDeadlockOnLocks ==
    /\ \A t \in LockThreads :
          /\ Cardinality(held(t)) <= 1
          /\ tpc[t].pc = "waiting" => held(t) = {}
          /\ tpc[t].pc = "waiting" =>
                \A h \in lk[lock_of(tpc[t].method)] : tpc[h].pc = "inside"
    /\ \A L \in Locks : Cardinality(lk[L]) <= 1
    /\ tpc[MonitorThread].pc = "sleeping" => held(MonitorThread) = {}

\* the monitor sleeps after next_expiration while one pool thread waits for
\* the lock another pool thread holds
C29_Witness ==
    /\ tpc[MonitorThread].pc = "sleeping"
    /\ \E t \in Workers, u \in Workers :
          /\ tpc[t].pc = "waiting"
          /\ tpc[u].pc = "inside"
          /\ u \in lk[lock_of(tpc[t].method)]

\* C33: whenever the Coordinator is in ROUND the registry holds exactly
\* minimum_connected_participants participants.
C33_RoundMeansFullRegistry ==
    state = "ROUND" =>
        Participants_len(participants) = minimum_connected_participants

\* a round is running with a full registry after an eviction and a new
\* rendezvous brought the Coordinator back from STANDBY
C33_Witness ==
    /\ state = "ROUND"
    /\ last.op = "Rendezvous"
    /\ current_round > 0
    /\ round.updates = <<>>
    /\ now > 0
    /\ Participants_len(participants) = minimum_connected_participants
    /\ \E p \in DOMAIN participants : participants[p] = heartbeat_expires(now)

\* C34: current_round never decreases and never exceeds num_rounds, and a
\* rendezvous that takes the Coordinator from STANDBY back to ROUND after
\* rounds have begun leaves current_round as it is.
C34_CurrentRoundMonotone ==
    [][/\ current_round' >= current_round
       /\ current_round' <= num_rounds
       /\ (state = "STANDBY" /\ state' = "ROUND" /\ current_round > 0)
          => current_round' = current_round]_vars

\* a rendezvous has resumed round 2 from STANDBY
C34_Witness ==
    /\ last.op = "Rendezvous"
    /\ state = "ROUND"
    /\ current_round = 2
    /\ round.updates = <<>>
    /\ now > 0

\* C35: an end_training processed while state is STANDBY or FINISHED never
\* replaces the weights, never increments current_round and never changes
\* state.
C35_AggregationOnlyInRound ==
    [][(last'.op = "EndTraining" /\ state \in {"STANDBY", "FINISHED"})
       => /\ theta' = theta
          /\ current_round' = current_round
          /\ state' = state]_vars

\* C36: a start_training that directly follows a heartbeat reply reporting
\* ROUND to the same participant succeeds.
C36_StartSucceedsAfterRoundReply ==
    [][(/\ last.op = "Heartbeat"
        /\ last.error = "none"
        /\ last.reply.state = "ROUND"
        /\ last'.op = "StartTraining"
        /\ last'.id = last.id)
       => last'.error = "none"]_vars

\* C38: every Round the Coordinator creates has at least
\* minimum_participants_in_round selected participants.
C38_NewRoundHasMinInRound ==
    [][(round' # round /\ round'.updates = <<>>)
       => Len(round'.participant_ids) >= minimum_participants_in_round]_vars

\* C37: an end_training is recorded for the current round only if its
\* sender's start_training succeeded earlier in that round.
C37_UpdateFollowsStartTraining ==
    [][(last'.op = "EndTraining" /\ last'.error = "none")
       => <<last'.id, current_round>> \in started]_vars

\* C32: remove_selected(id) leaves updates unchanged; when id was selected
\* it is no longer a member of participant_ids afterwards; when it was not
\* selected nothing changes; no error is raised either way.
C32_RemoveSelectedRemoves ==
    [][result'.op = "remove_selected"
       => /\ rnd'.updates = rnd.updates
          /\ result'.error = "none"
          /\ IF result'.arg \in Range(rnd.participant_ids)
             THEN result'.arg \notin Range(rnd'.participant_ids)
             ELSE rnd' = rnd]_vars

\* C39: with rendezvous handlers interleaved on the worker pool the registry
\* never exceeds minimum_connected_participants, and when no handler is
\* running and the registry has reached it, the Coordinator is in ROUND.
C39_ConcurrentRendezvousBounded ==
    /\ Participants_len(participants) <= minimum_connected_participants
    /\ (AllIdle /\ Participants_len(participants) >= minimum_connected_participants)
       => state = "ROUND"

\* C40: a heartbeat that runs while the monitor evicts its sender either
\* completes with the sender still registered or is rejected with
\* UnknownParticipantError; it ends with no other error.
C40_HeartbeatNeverHitsAbsentId ==
    last.op = "Heartbeat" =>
        /\ last.error \in {"none", "UnknownParticipantError"}
        /\ last.error = "none" => last.id \in DOMAIN participants

\* C31: once the termination signal is set the monitor eventually leaves its
\* loop, and the monitor evicts nobody in a cycle that began after the
\* signal was set.
C31_MonitorExitsAfterSignal ==
    /\ [][(mon.pc = "remove" /\ participants' # participants)
          => ~mon.signal_at_start]_vars
    /\ mon.terminate_event ~> mon.pc \in {"exited", "dead"}

\* the signal came while the monitor slept with an expired participant in
\* the registry, and the monitor has left its loop without evicting it
C31_Witness ==
    /\ mon.terminate_event
    /\ mon.pc = "exited"
    /\ expired(participants, now) # {}
====
